---------------------------- MODULE Spec2Model ----------------------------
(***************************************************************************)
(* A model of ODESIScraper (src/src/odesi_scraper.py): the fetch / parse / *)
(* aggregate loop of scrape_all_categories, the duplicate detector         *)
(* find_duplicates and the exporter export_to_excel.                        *)
(*                                                                         *)
(* JSON values are tagged records [t, v].  A string is the sequence of its *)
(* characters, so that substring tests, lower() and strip() are computed.  *)
(* A JSON object is a function from its keys to JSON values.                *)
(***************************************************************************)
EXTENDS Integers, Sequences, FiniteSets, TLC

VARIABLES
    pc,           \* position of the running call
    categories,   \* the list given to scrape_all_categories
    i,            \* enumerate(categories, 1) index of the loop body
    category,     \* the category being fetched / parsed
    data,         \* what fetch_category_data returned last
    records,      \* what parse_category_data returned last
    all_records,  \* the accumulator of scrape_all_categories
    exc,          \* the exception that left the running call, or "none"
    io,           \* history: the fetches and sleeps issued, in order
    fetched,      \* history: per category, whether the fetch failed and its body
    df,           \* the DataFrame object held by the caller
    duplicates,   \* what find_duplicates returned last
    workbook,     \* the sheets of the file written by the last export
    last_call     \* history: the last operation invoked on df

vars == <<pc, categories, i, category, data, records, all_records, exc, io,
          fetched, df, duplicates, workbook, last_call>>

----------------------------------------------------------------------------
(* Bounds of the model.                                                    *)

\* Series entries + year entries + survey entries of a generated response.
MaxNodes == 6
\* Length of the category list given to scrape_all_categories.
MaxCategories == 3
\* Number of rows of a dataset given directly to find_duplicates / export.
MaxRecords == 3

----------------------------------------------------------------------------
(* JSON values and the Python operations the parser applies to them.       *)

J(t, v) == [t |-> t, v |-> v]
JNull == J("null", 0)
JBool(b) == J("bool", b)
JNum(n) == J("num", n)
JStr(cs) == J("str", cs)
JList(s) == J("list", s)
JObj(f) == J("obj", f)
EmptyObj == JObj(<<>>)

ContentChars == <<"c", "o", "n", "t", "e", "n", "t">>
UnknownChars == <<"U", "n", "k", "n", "o", "w", "n">>

\* The characters of an object key (iterating a dict yields its keys).
KeyChars(k) ==
    CASE k = "content" -> ContentChars
      [] k = "datasets" -> <<"d", "a", "t", "a", "s", "e", "t", "s">>
      [] k = "items" -> <<"i", "t", "e", "m", "s">>
      [] k = "series" -> <<"s", "e", "r", "i", "e", "s">>
      [] k = "years" -> <<"y", "e", "a", "r", "s">>
      [] k = "year" -> <<"y", "e", "a", "r">>
      [] k = "item" -> <<"i", "t", "e", "m">>
      [] k = "title" -> <<"t", "i", "t", "l", "e">>
      [] k = "uri" -> <<"u", "r", "i">>
      [] OTHER -> <<"o", "t", "h", "e", "r">>

\* bool(x): None, False, 0, "", [] and {} are falsy.
Truthy(x) ==
    CASE x.t = "null" -> FALSE
      [] x.t = "bool" -> x.v
      [] x.t = "num" -> x.v # 0
      [] x.t = "str" -> Len(x.v) > 0
      [] x.t = "list" -> Len(x.v) > 0
      [] x.t = "obj" -> DOMAIN x.v # {}

Contains(hay, needle) ==
    \E k \in 0..(Len(hay) - Len(needle)) :
        SubSeq(hay, k + 1, k + Len(needle)) = needle

\* Whether `'content' in x` raises: numbers, booleans and None are not containers.
InRaises(x) == x.t \in {"null", "bool", "num"}

\* `'content' in x` for a container: a key of a dict, an element of a list,
\* a substring of a str.
ContentIn(x) ==
    CASE x.t = "obj" -> "content" \in DOMAIN x.v
      [] x.t = "list" -> \E k \in 1..Len(x.v) : x.v[k] = JStr(ContentChars)
      [] x.t = "str" -> Contains(x.v, ContentChars)
      [] OTHER -> FALSE

\* x.get(key, default) of a dict x.
Get(x, key, default) == IF key \in DOMAIN x.v THEN x.v[key] ELSE default

\* Whether `for e in x` raises TypeError.
IterRaises(x) == x.t \in {"null", "bool", "num"}

RECURSIVE KeySeq(_)
KeySeq(S) ==
    IF S = {} THEN <<>>
    ELSE LET k == CHOOSE e \in S : TRUE
         IN <<JStr(KeyChars(k))>> \o KeySeq(S \ {k})

\* The elements `for e in x` yields: of a list its elements, of a str its
\* characters, of a dict its keys (all of them strs, in some order).
Elements(x) ==
    CASE x.t = "list" -> x.v
      [] x.t = "str" -> [k \in 1..Len(x.v) |-> JStr(<<x.v[k]>>)]
      [] x.t = "obj" -> KeySeq(DOMAIN x.v)
      [] OTHER -> <<>>

----------------------------------------------------------------------------
(* parse_category_data                                                     *)

Ok(recs) == [exc |-> "none", records |-> recs]
Raise(e) == [exc |-> e, records |-> <<>>]

Record(cat, series_name, year, survey) ==
    [Category |-> cat,
     Series_Name |-> series_name,
     Year |-> year,
     Survey_Title |-> Get(survey, "title", JStr(<<>>)),
     URI |-> Get(survey, "uri", JStr(<<>>))]

\* A variant that appends once, after the loop over the surveys: only the
\* last survey of a year gives a record.
ParseSurveys_AppendAfterLoop(cat, series_name, year, surveys, k) ==
    IF \E j \in 1..Len(surveys) : surveys[j].t # "obj" THEN Raise("AttributeError")
    ELSE IF Len(surveys) = 0 THEN Ok(<<>>)
    ELSE Ok(<<Record(cat, series_name, year, surveys[Len(surveys)])>>)

\* for survey in surveys: ... records.append(record)
RECURSIVE ParseSurveys(_, _, _, _, _)
ParseSurveys(cat, series_name, year, surveys, k) ==
    IF k > Len(surveys) THEN Ok(<<>>)
    ELSE IF surveys[k].t # "obj" THEN Raise("AttributeError")
    ELSE LET rest == ParseSurveys(cat, series_name, year, surveys, k + 1)
         IN IF rest.exc # "none" THEN rest
            ELSE Ok(<<Record(cat, series_name, year, surveys[k])>> \o rest.records)

\* The body of `for year_data in years` for one year_data.
ParseYear(cat, series_name, year_data) ==
    IF year_data.t # "obj" THEN Raise("AttributeError")
    ELSE LET year == Get(year_data, "year", JStr(UnknownChars))
             surveys == Get(year_data, "item", JList(<<>>))
         IN IF IterRaises(surveys) THEN Raise("TypeError")
            ELSE ParseSurveys(cat, series_name, year, Elements(surveys), 1)

RECURSIVE ParseYears(_, _, _, _)
ParseYears(cat, series_name, years, k) ==
    IF k > Len(years) THEN Ok(<<>>)
    ELSE LET first == ParseYear(cat, series_name, years[k])
         IN IF first.exc # "none" THEN first
            ELSE LET rest == ParseYears(cat, series_name, years, k + 1)
                 IN IF rest.exc # "none" THEN rest
                    ELSE Ok(first.records \o rest.records)

\* The body of `for series_item in items` for one series_item.
ParseSeries(cat, series_item) ==
    IF series_item.t # "obj" THEN Raise("AttributeError")
    ELSE LET series_name == Get(series_item, "series", JStr(UnknownChars))
             years == Get(series_item, "years", JList(<<>>))
         IN IF IterRaises(years) THEN Raise("TypeError")
            ELSE ParseYears(cat, series_name, Elements(years), 1)

RECURSIVE ParseItems(_, _, _)
ParseItems(cat, items, k) ==
    IF k > Len(items) THEN Ok(<<>>)
    ELSE LET first == ParseSeries(cat, items[k])
         IN IF first.exc # "none" THEN first
            ELSE LET rest == ParseItems(cat, items, k + 1)
                 IN IF rest.exc # "none" THEN rest
                    ELSE Ok(first.records \o rest.records)

\* `isinstance(datasets, dict)`
IsDict(x) == x.t = "obj"

parse_category_data(cat, d) ==
    IF ~Truthy(d) THEN Ok(<<>>)
    ELSE IF InRaises(d) THEN Raise("TypeError")
    ELSE IF ~ContentIn(d) THEN Ok(<<>>)
    ELSE IF d.t # "obj" THEN Raise("AttributeError")
    ELSE LET content == Get(d, "content", EmptyObj)
         IN IF content.t # "obj" THEN Raise("AttributeError")
            ELSE LET datasets == Get(content, "datasets", EmptyObj)
                 IN IF ~IsDict(datasets) THEN Ok(<<>>)
                    ELSE LET items == Get(datasets, "items", JList(<<>>))
                         IN IF IterRaises(items) THEN Raise("TypeError")
                            ELSE ParseItems(cat, Elements(items), 1)

----------------------------------------------------------------------------
(* Python str operations on character sequences.                           *)

\* str.lower() of one character.
LowerChar(c) ==
    CASE c = "A" -> "a"
      [] c = "B" -> "b"
      [] c = "S" -> "s"
      [] c = "T" -> "t"
      [] c = "U" -> "u"
      [] OTHER -> c

Lower(cs) == [k \in 1..Len(cs) |-> LowerChar(cs[k])]

\* The characters str.strip() removes.
IsSpace(c) == c \in {" ", "\t", "\n"}

RECURSIVE LStrip(_)
LStrip(cs) ==
    IF Len(cs) > 0 /\ IsSpace(Head(cs)) THEN LStrip(Tail(cs)) ELSE cs

RECURSIVE RStrip(_)
RStrip(cs) ==
    IF Len(cs) > 0 /\ IsSpace(cs[Len(cs)])
    THEN RStrip(SubSeq(cs, 1, Len(cs) - 1))
    ELSE cs

Strip(cs) == RStrip(LStrip(cs))

\* The code point of a character (of those the model's strings use).
CodePoint(c) ==
    CASE c = "\t" -> 9
      [] c = "\n" -> 10
      [] c = " " -> 32
      [] c = "0" -> 48
      [] c = "1" -> 49
      [] c = "2" -> 50
      [] c = "A" -> 65
      [] c = "B" -> 66
      [] c = "S" -> 83
      [] c = "T" -> 84
      [] c = "U" -> 85
      [] c = "a" -> 97
      [] c = "b" -> 98
      [] c = "k" -> 107
      [] c = "n" -> 110
      [] c = "o" -> 111
      [] c = "s" -> 115
      [] c = "t" -> 116
      [] c = "u" -> 117
      [] c = "w" -> 119
      [] OTHER -> 120

\* a < b for two strs: lexicographic by code point, a proper prefix first.
RECURSIVE StrLess(_, _)
StrLess(a, b) ==
    IF Len(b) = 0 THEN FALSE
    ELSE IF Len(a) = 0 THEN TRUE
    ELSE IF CodePoint(Head(a)) # CodePoint(Head(b))
         THEN CodePoint(Head(a)) < CodePoint(Head(b))
         ELSE StrLess(Tail(a), Tail(b))

----------------------------------------------------------------------------
(* The pandas DataFrame operations of find_duplicates and export_to_excel. *)
(* A frame is its column labels, in order, and its rows, in order; a row   *)
(* is a function from the column labels to values.                         *)

BaseColumns == <<"Category", "Series_Name", "Year", "Survey_Title", "URI">>
NoFrame == [columns |-> <<>>, rows |-> <<>>]
NoWorkbook == <<>>
NoCall == [op |-> "none", nested |-> FALSE]

\* pd.DataFrame(all_records): the columns are the keys of the records, in
\* the order they are first seen; of an empty list there are none.
DataFrame(recs) ==
    IF Len(recs) = 0 THEN NoFrame ELSE [columns |-> BaseColumns, rows |-> recs]

\* df.empty: no rows, or no columns.
Empty(f) == Len(f.rows) = 0 \/ Len(f.columns) = 0

HasColumn(f, c) == \E k \in 1..Len(f.columns) : f.columns[k] = c

\* df[c] = values: a new column goes last, an existing one keeps its place.
SetColumn(f, c, values) ==
    [columns |-> IF HasColumn(f, c) THEN f.columns ELSE Append(f.columns, c),
     rows |-> [k \in 1..Len(f.rows) |->
                  [col \in DOMAIN f.rows[k] \cup {c} |->
                      IF col = c THEN values[k] ELSE f.rows[k][col]]]]

RECURSIVE SeqWithout(_, _)
SeqWithout(s, c) ==
    IF Len(s) = 0 THEN <<>>
    ELSE IF Head(s) = c THEN SeqWithout(Tail(s), c)
    ELSE <<Head(s)>> \o SeqWithout(Tail(s), c)

\* df.drop(columns=[c]): a new frame, the one it is called on is kept.
DropColumn(f, c) ==
    [columns |-> SeqWithout(f.columns, c),
     rows |-> [k \in 1..Len(f.rows) |->
                  [col \in DOMAIN f.rows[k] \ {c} |-> f.rows[k][col]]]]

NaN == J("nan", 0)

\* A variant that lower-cases the title and does not strip it.
Normalized_NoStrip(x) == IF x.t = "str" THEN JStr(Lower(x.v)) ELSE NaN

\* .str.lower().str.strip() of one value: of a str; anything else gives NaN.
Normalized(x) == IF x.t = "str" THEN JStr(Strip(Lower(x.v))) ELSE NaN

DupKey(row) == <<row["Title_Normalized"], row["Series_Name"], row["Year"]>>

\* A variant with pandas' default keep='first': the first row of a key is
\* not marked.
Duplicated_KeepFirst(f) ==
    [k \in 1..Len(f.rows) |->
        \E j \in 1..(k - 1) : DupKey(f.rows[j]) = DupKey(f.rows[k])]

\* df.duplicated(subset=[...], keep=False): every row whose key another row has.
Duplicated(f) ==
    [k \in 1..Len(f.rows) |->
        \E j \in 1..Len(f.rows) : j # k /\ DupKey(f.rows[j]) = DupKey(f.rows[k])]

\* df[mask]: the rows the mask marks, in order.
RECURSIVE SelectFrom(_, _, _)
SelectFrom(rows, mask, k) ==
    IF k > Len(rows) THEN <<>>
    ELSE IF mask[k] THEN <<rows[k]>> \o SelectFrom(rows, mask, k + 1)
    ELSE SelectFrom(rows, mask, k + 1)

Select(f, mask) == [columns |-> f.columns, rows |-> SelectFrom(f.rows, mask, 1)]

\* The order of sort_values(['Series_Name', 'Year', 'Survey_Title']).
ValueLess(x, y) == StrLess(x.v, y.v)
SortLess(a, b) ==
    \/ ValueLess(a["Series_Name"], b["Series_Name"])
    \/ /\ a["Series_Name"] = b["Series_Name"]
       /\ \/ ValueLess(a["Year"], b["Year"])
          \/ /\ a["Year"] = b["Year"]
             /\ ValueLess(a["Survey_Title"], b["Survey_Title"])

\* Insert a row before the rows of a sorted sequence it does not follow.
RECURSIVE InsertRow(_, _)
InsertRow(row, sorted) ==
    IF Len(sorted) = 0 THEN <<row>>
    ELSE IF SortLess(Head(sorted), row)
         THEN <<Head(sorted)>> \o InsertRow(row, Tail(sorted))
         ELSE <<row>> \o sorted

\* A stable sort: rows of equal keys keep their order.
RECURSIVE SortRows(_)
SortRows(rows) ==
    IF Len(rows) = 0 THEN <<>> ELSE InsertRow(Head(rows), SortRows(Tail(rows)))

SortValues(f) == [columns |-> f.columns, rows |-> SortRows(f.rows)]

\* find_duplicates(df): what it returns and what it leaves in df, the frame
\* object it was given.
find_duplicates(f) ==
    IF Empty(f) THEN [result |-> NoFrame, df |-> f]
    ELSE LET marked == SetColumn(f, "Title_Normalized",
                          [k \in 1..Len(f.rows) |->
                              Normalized(f.rows[k]["Survey_Title"])])
             dups == SortValues(Select(marked, Duplicated(marked)))
         IN [result |-> DropColumn(dups, "Title_Normalized"), df |-> marked]

\* The values of a column.
Column(rows, c) == {rows[k][c] : k \in 1..Len(rows)}

MinStr(S) == CHOOSE x \in S : \A y \in S : ~ValueLess(y, x)
MaxStr(S) == CHOOSE x \in S : \A y \in S : ~ValueLess(x, y)

\* df.groupby('Category').agg({'Series_Name': 'nunique', 'Survey_Title': 'count'}),
\* columns renamed; the order of the groups is not modelled.
CategorySummary(f) ==
    [c \in Column(f.rows, "Category") |->
        LET members == {k \in 1..Len(f.rows) : f.rows[k]["Category"] = c}
        IN [Unique_Series |-> Cardinality({f.rows[k]["Series_Name"] : k \in members}),
            Total_Surveys |-> Cardinality(members)]]

\* df.groupby(['Category', 'Series_Name']).agg({'Survey_Title': 'count',
\* 'Year': ['min', 'max']}), columns renamed.
SeriesSummary(f) ==
    [g \in {<<f.rows[k]["Category"], f.rows[k]["Series_Name"]>> : k \in 1..Len(f.rows)} |->
        LET members == {k \in 1..Len(f.rows) :
                           <<f.rows[k]["Category"], f.rows[k]["Series_Name"]>> = g}
            years == {f.rows[k]["Year"] : k \in members}
        IN [Survey_Count |-> Cardinality(members),
            First_Year |-> MinStr(years),
            Last_Year |-> MaxStr(years)]]

\* x.to_excel(writer, sheet_name=...): the header row and the data rows.
Sheet(name, f) == [name |-> name, header |-> f.columns, rows |-> f.rows]
SummarySheet(name, groups) == [name |-> name, groups |-> groups]

\* export_to_excel(df, filename): the sheets written, in order, what it
\* leaves in df, and whether it called find_duplicates.
export_to_excel(f) ==
    LET all_data == <<Sheet("All_Data", f)>>
    IN IF Empty(f)
       THEN [workbook |-> all_data, df |-> f, nested |-> FALSE,
             duplicates |-> NoFrame]
       ELSE LET summaries ==
                    <<SummarySheet("Category_Summary", CategorySummary(f)),
                      SummarySheet("Series_Summary", SeriesSummary(f))>>
                found == find_duplicates(f)
            IN [workbook |->
                    all_data \o summaries \o
                    (IF ~Empty(found.result)
                     THEN <<Sheet("Potential_Duplicates", found.result)>>
                     ELSE <<>>),
                df |-> found.df, nested |-> TRUE, duplicates |-> found.result]

----------------------------------------------------------------------------
(* The responses the upstream API may return: any JSON document.           *)

Chars(a, b) == <<a, b>>
SeriesNames == {JStr(Chars("S", "1")), JStr(Chars("S", "2"))}
YearLabels == {JStr(Chars("0", "1")), JStr(Chars("0", "2"))}
SurveyObjs ==
    {JObj([title |-> JStr(Chars("T", "1")), uri |-> JStr(Chars("u", "1"))]),
     JObj([title |-> JStr(Chars("t", "1"))])}

SeriesObj(name, years) == JObj([series |-> name, years |-> JList(years)])
YearObj(label, surveys) == JObj([year |-> label, item |-> JList(surveys)])
Response(items) ==
    JObj([content |-> JObj([datasets |-> JObj([items |-> items])])])

RECURSIVE SurveyListsOfSize(_)
SurveyListsOfSize(n) ==
    IF n = 0 THEN {<<>>}
    ELSE {<<s>> \o r : s \in SurveyObjs, r \in SurveyListsOfSize(n - 1)}

YearEntriesOfSize(n) ==
    {YearObj(y, sl) : y \in YearLabels, sl \in SurveyListsOfSize(n - 1)}

RECURSIVE YearListsOfSize(_)
YearListsOfSize(n) ==
    IF n = 0 THEN {<<>>}
    ELSE UNION {{<<e>> \o r : e \in YearEntriesOfSize(f),
                              r \in YearListsOfSize(n - f)} : f \in 1..n}

SeriesEntriesOfSize(n) ==
    {SeriesObj(s, yl) : s \in SeriesNames, yl \in YearListsOfSize(n - 1)}

RECURSIVE ItemListsOfSize(_)
ItemListsOfSize(n) ==
    IF n = 0 THEN {<<>>}
    ELSE UNION {{<<e>> \o r : e \in SeriesEntriesOfSize(f),
                              r \in ItemListsOfSize(n - f)} : f \in 1..n}

\* The responses of the documented shape, content -> datasets -> items ->
\* [series] -> years -> [year] -> item -> [survey], of at most MaxNodes entries.
WellShaped ==
    {Response(JList(il)) : il \in UNION {ItemListsOfSize(n) : n \in 0..MaxNodes}}

\* Values of every JSON type, to stand at any place of a response.
AnyValues ==
    {JNull, JBool(TRUE), JBool(FALSE), JNum(0), JNum(1),
     JStr(<<>>), JStr(<<"x">>), JStr(ContentChars),
     JStr(<<"x">> \o ContentChars \o <<"x">>),
     JList(<<>>), JList(<<JNum(1)>>), JList(<<JStr(ContentChars)>>),
     EmptyObj, JObj([other |-> JNum(1)])}

GoodSurvey == JObj([title |-> JStr(Chars("T", "1")), uri |-> JStr(Chars("u", "1"))])
GoodYear == YearObj(JStr(Chars("0", "1")), <<GoodSurvey>>)
GoodSeries == SeriesObj(JStr(Chars("S", "1")), <<GoodYear>>)

\* An object without one of its keys.
Without(obj, key) == JObj([k \in DOMAIN obj.v \ {key} |-> obj.v[k]])
With(obj, key, val) ==
    JObj([k \in DOMAIN obj.v \cup {key} |-> IF k = key THEN val ELSE obj.v[k]])

Levels == {"data", "content", "datasets", "items", "series_entry", "series",
           "years", "year_entry", "year", "item", "survey"}

\* A response that follows the documented shape down to `level`, where the
\* value w stands (after a well-formed sibling, for an entry of a list).
Deviant(level, w) ==
    CASE level = "data" -> w
      [] level = "content" -> JObj([content |-> w])
      [] level = "datasets" -> JObj([content |-> JObj([datasets |-> w])])
      [] level = "items" -> Response(w)
      [] level = "series_entry" -> Response(JList(<<GoodSeries, w>>))
      [] level = "series" ->
            Response(JList(<<With(GoodSeries, "series", w)>>))
      [] level = "years" ->
            Response(JList(<<GoodSeries, With(GoodSeries, "years", w)>>))
      [] level = "year_entry" ->
            Response(JList(<<SeriesObj(JStr(Chars("S", "1")), <<GoodYear, w>>)>>))
      [] level = "year" ->
            Response(JList(<<SeriesObj(JStr(Chars("S", "1")),
                                       <<With(GoodYear, "year", w)>>)>>))
      [] level = "item" ->
            Response(JList(<<SeriesObj(JStr(Chars("S", "1")),
                                       <<GoodYear, With(GoodYear, "item", w)>>)>>))
      [] level = "survey" ->
            Response(JList(<<SeriesObj(JStr(Chars("S", "1")),
                 <<YearObj(JStr(Chars("0", "1")), <<GoodSurvey, w>>)>>)>>))

\* A response that lacks a key of the documented shape.
Lacking(level) ==
    CASE level = "content" -> JObj([other |-> JNum(1)])
      [] level = "datasets" -> JObj([content |-> EmptyObj])
      [] level = "items" -> JObj([content |-> JObj([datasets |-> EmptyObj])])
      [] level = "series" -> Response(JList(<<Without(GoodSeries, "series")>>))
      [] level = "years" -> Response(JList(<<Without(GoodSeries, "years")>>))
      [] level = "year" ->
            Response(JList(<<SeriesObj(JStr(Chars("S", "1")),
                                       <<Without(GoodYear, "year")>>)>>))
      [] level = "item" ->
            Response(JList(<<SeriesObj(JStr(Chars("S", "1")),
                                       <<Without(GoodYear, "item")>>)>>))
      [] OTHER -> EmptyObj

Deviants ==
    {Deviant(l, w) : l \in Levels, w \in AnyValues} \cup {Lacking(l) : l \in Levels}

Responses == WellShaped \cup Deviants

CategoryNames == {"Health", "Trade"}

----------------------------------------------------------------------------
(* SpecParse: parse_category_data applied to one response.                 *)

InitParse ==
    /\ pc = "parse"
    /\ categories = <<>>
    /\ i = 0
    /\ category \in CategoryNames
    /\ data \in Responses
    /\ records = <<>>
    /\ all_records = <<>>
    /\ exc = "none"
    /\ io = <<>>
    /\ fetched = <<>>
    /\ df = NoFrame
    /\ duplicates = NoFrame
    /\ workbook = NoWorkbook
    /\ last_call = NoCall

ParseOnly ==
    /\ pc = "parse"
    /\ LET r == parse_category_data(category, data)
       IN /\ records' = r.records
          /\ exc' = r.exc
          /\ pc' = IF r.exc = "none" THEN "parsed" ELSE "raised"
    /\ UNCHANGED <<categories, i, category, data, all_records, io, fetched, df,
                   duplicates, workbook, last_call>>

SpecParse == InitParse /\ [][ParseOnly]_vars

----------------------------------------------------------------------------
(* Spec: scrape_all_categories, then find_duplicates and export_to_excel   *)
(* on the DataFrame it returned.                                            *)

Title_Ab == JStr(<<"A", "b">>)
Title_ab == JStr(<<" ", "a", "b">>)
Survey(title) == JObj([title |-> title, uri |-> JStr(Chars("u", "1"))])

\* One series, one year, two surveys whose titles differ in case and blanks.
BodyTwins ==
    Response(JList(<<SeriesObj(JStr(Chars("S", "1")),
        <<YearObj(JStr(Chars("0", "1")), <<Survey(Title_Ab), Survey(Title_ab)>>)>>)>>))
\* Two series of one survey each, the later-sorting series first.
BodyTwoSeries ==
    Response(JList(<<SeriesObj(JStr(Chars("S", "2")),
                        <<YearObj(JStr(Chars("0", "2")), <<Survey(Title_Ab)>>)>>),
                     SeriesObj(JStr(Chars("S", "1")),
                        <<YearObj(JStr(Chars("0", "1")), <<Survey(Title_Ab)>>)>>)>>))
\* A category of no surveys.
BodyNoSurveys == Response(JList(<<>>))
\* The placeholder string the upstream sends for an empty category.
BodyPlaceholder == JObj([content |-> JObj([datasets |-> JStr(<<"x">>)])])
\* A document whose "content" is not a mapping.
BodyContentString == JObj([content |-> JStr(<<"x">>)])

Bodies == {BodyTwins, BodyTwoSeries, BodyNoSurveys, BodyPlaceholder,
           BodyContentString}

\* What session.get / raise_for_status / response.json() may do.
FetchOutcomes ==
    {[kind |-> "ok", body |-> b] : b \in Bodies}
    \cup {[kind |-> k, body |-> JNull] :
             k \in {"network_error", "timeout", "http_error"}}

\* `except requests.exceptions.RequestException`: every outcome but a body.
Caught(o) == o.kind # "ok"

\* fetch_category_data: the parsed body, or {} on a RequestException.
fetch_category_data(o) == IF Caught(o) THEN EmptyObj ELSE o.body

\* What the history keeps of a fetch: whether it failed, and the body sent.
Fetched(o) == [failed |-> Caught(o), body |-> o.body]

RECURSIVE SeqsUpTo(_, _)
SeqsUpTo(S, n) ==
    IF n = 0 THEN {<<>>}
    ELSE LET shorter == SeqsUpTo(S, n - 1)
         IN shorter \cup {Append(s, x) : s \in {t \in shorter : Len(t) = n - 1}, x \in S}

CategoryLists == SeqsUpTo(CategoryNames, MaxCategories)

\* A variant that puts the new records first.
Extend_Prepend(all, recs) == recs \o all

\* all_records.extend(records)
Extend(all, recs) == all \o recs

\* `if i < len(categories)`: a delay follows every category but the last.
DelayFollows(k, n) == k < n

GetOp(c) == [op |-> "get", category |-> c]
SleepOp(c) == [op |-> "sleep", category |-> c]

Init ==
    /\ pc = "idle"
    /\ categories = <<>>
    /\ i = 0
    /\ category = "none"
    /\ data = EmptyObj
    /\ records = <<>>
    /\ all_records = <<>>
    /\ exc = "none"
    /\ io = <<>>
    /\ fetched = <<>>
    /\ df = NoFrame
    /\ duplicates = NoFrame
    /\ workbook = NoWorkbook
    /\ last_call = NoCall

\* scrape_all_categories(categories) is called: all_records = [].  The list
\* is any list of at most MaxCategories names; the default, the catalog of
\* 19 names, is a list like any other and longer than the bound.
Scrape ==
    /\ pc = "idle"
    /\ \E cats \in CategoryLists :
          /\ categories' = cats
          /\ pc' = IF Len(cats) = 0 THEN "finish" ELSE "fetch"
    /\ i' = 1
    /\ all_records' = <<>>
    /\ UNCHANGED <<category, data, records, exc, io, fetched, df, duplicates,
                   workbook, last_call>>

\* data = self.fetch_category_data(category)
Fetch ==
    /\ pc = "fetch"
    /\ category' = categories[i]
    /\ \E o \in FetchOutcomes :
          /\ data' = fetch_category_data(o)
          /\ fetched' = Append(fetched, Fetched(o))
    /\ io' = Append(io, GetOp(categories[i]))
    /\ pc' = "parse"
    /\ UNCHANGED <<categories, i, records, all_records, exc, df, duplicates,
                   workbook, last_call>>

\* records = self.parse_category_data(category, data); all_records.extend(records)
Parse ==
    /\ pc = "parse"
    /\ LET r == parse_category_data(category, data)
       IN /\ records' = r.records
          /\ exc' = r.exc
          /\ IF r.exc # "none"
             THEN /\ pc' = "raised"
                  /\ UNCHANGED all_records
             ELSE /\ all_records' = Extend(all_records, r.records)
                  /\ pc' = IF DelayFollows(i, Len(categories)) THEN "sleep" ELSE "next"
    /\ UNCHANGED <<categories, i, category, data, io, fetched, df, duplicates,
                   workbook, last_call>>

\* time.sleep(self.delay)
Sleep ==
    /\ pc = "sleep"
    /\ io' = Append(io, SleepOp(category))
    /\ pc' = "next"
    /\ UNCHANGED <<categories, i, category, data, records, all_records, exc,
                   fetched, df, duplicates, workbook, last_call>>

\* The for loop takes the next category, or ends.
NextCategory ==
    /\ pc = "next"
    /\ IF i < Len(categories)
       THEN /\ i' = i + 1
            /\ pc' = "fetch"
       ELSE /\ pc' = "finish"
            /\ UNCHANGED i
    /\ UNCHANGED <<categories, category, data, records, all_records, exc, io,
                   fetched, df, duplicates, workbook, last_call>>

\* df = pd.DataFrame(all_records); return df
Finish ==
    /\ pc = "finish"
    /\ df' = DataFrame(all_records)
    /\ pc' = "returned"
    /\ UNCHANGED <<categories, i, category, data, records, all_records, exc, io,
                   fetched, duplicates, workbook, last_call>>

\* find_duplicates(df), called on the DataFrame the caller holds.
FindDuplicates ==
    /\ pc = "returned"
    /\ LET r == find_duplicates(df)
       IN /\ df' = r.df
          /\ duplicates' = r.result
    /\ last_call' = [op |-> "find_duplicates", nested |-> FALSE]
    /\ UNCHANGED <<pc, categories, i, category, data, records, all_records, exc,
                   io, fetched, workbook>>

\* export_to_excel(df, filename), called on the DataFrame the caller holds.
ExportToExcel ==
    /\ pc = "returned"
    /\ LET r == export_to_excel(df)
       IN /\ df' = r.df
          /\ workbook' = r.workbook
          /\ duplicates' = IF r.nested THEN r.duplicates ELSE duplicates
          /\ last_call' = [op |-> "export_to_excel", nested |-> r.nested]
    /\ UNCHANGED <<pc, categories, i, category, data, records, all_records, exc,
                   io, fetched>>

Next ==
    \/ Scrape
    \/ Fetch
    \/ Parse
    \/ Sleep
    \/ NextCategory
    \/ Finish
    \/ FindDuplicates
    \/ ExportToExcel

Spec == Init /\ [][Next]_vars

----------------------------------------------------------------------------
(* SpecDup: find_duplicates and export_to_excel on a dataset of records    *)
(* as parse_category_data builds them.                                      *)

DupTitles == {JStr(<<"A">>), JStr(<<" ", "a">>), JStr(<<"b">>)}

DupRecords ==
    {[Category |-> "Health", Series_Name |-> s, Year |-> y, Survey_Title |-> t,
      URI |-> JStr(Chars("u", "1"))] :
        s \in SeriesNames, y \in YearLabels, t \in DupTitles}

Datasets == SeqsUpTo(DupRecords, MaxRecords)

InitDup ==
    /\ pc = "returned"
    /\ categories = <<>>
    /\ i = 0
    /\ category = "none"
    /\ data = EmptyObj
    /\ records = <<>>
    /\ all_records \in Datasets
    /\ exc = "none"
    /\ io = <<>>
    /\ fetched = <<>>
    /\ df = DataFrame(all_records)
    /\ duplicates = NoFrame
    /\ workbook = NoWorkbook
    /\ last_call = NoCall

NextDup == FindDuplicates \/ ExportToExcel

SpecDup == InitDup /\ [][NextDup]_vars

----------------------------------------------------------------------------
(* Claims about parse_category_data (SpecParse).                            *)

Returned == pc = "parsed"
Left == pc \in {"parsed", "raised"}

\* The inputs for which the parser is documented to return no records.
NoContent(d) == d = EmptyObj \/ (d.t = "obj" /\ "content" \notin DOMAIN d.v)
DatasetsNotMapping(d) ==
    /\ d.t = "obj" /\ "content" \in DOMAIN d.v
    /\ d.v["content"].t = "obj" /\ "datasets" \in DOMAIN d.v["content"].v
    /\ d.v["content"].v["datasets"].t # "obj"

\* C1: parse_category_data never raises, whatever JSON value it is given, and
\* returns no records for an empty mapping, a mapping without "content" and a
\* "datasets" that is not a mapping.
C1_NeverRaises ==
    Left => /\ exc = "none"
            /\ (NoContent(data) \/ DatasetsNotMapping(data)) => records = <<>>

IsList(x) == x.t = "list"
IsStr(x) == x.t = "str"
Has(x, key) == x.t = "obj" /\ key \in DOMAIN x.v
All(x, P(_)) == IsList(x) /\ \A k \in 1..Len(x.v) : P(x.v[k])

ShapedSurvey(x) == x.t = "obj"
ShapedYear(x) == Has(x, "year") /\ Has(x, "item") /\ All(x.v["item"], ShapedSurvey)
ShapedSeries(x) == Has(x, "series") /\ Has(x, "years") /\ All(x.v["years"], ShapedYear)
\* d has the shape content -> datasets -> items -> [series] -> years ->
\* [year] -> item -> [survey].
Shaped(d) ==
    /\ Has(d, "content") /\ Has(d.v["content"], "datasets")
    /\ Has(d.v["content"].v["datasets"], "items")
    /\ All(d.v["content"].v["datasets"].v["items"], ShapedSeries)

ItemsOf(d) == d.v["content"].v["datasets"].v["items"].v
YearsOf(d, s) == ItemsOf(d)[s].v["years"].v
SurveysOf(d, s, y) == YearsOf(d, s)[y].v["item"].v

\* The leaf survey items of a shaped response, each named by its position.
Leaves(d) ==
    UNION {UNION {{<<s, y, v>> : v \in 1..Len(SurveysOf(d, s, y))}
                  : y \in 1..Len(YearsOf(d, s))}
           : s \in 1..Len(ItemsOf(d))}

Before(p, q) ==
    \/ p[1] < q[1]
    \/ p[1] = q[1] /\ p[2] < q[2]
    \/ p[1] = q[1] /\ p[2] = q[2] /\ p[3] < q[3]

\* The place of a leaf in series, then year, then survey order.
Place(d, p) == 1 + Cardinality({q \in Leaves(d) : Before(q, p)})

\* C2: for a response of the documented shape the parser returns one record
\* per leaf survey item, carrying the category argument, the series value of
\* the enclosing series entry and the year value of the enclosing year entry.
C2_OneRecordPerLeaf ==
    (Left /\ Shaped(data)) =>
        /\ Returned
        /\ Len(records) = Cardinality(Leaves(data))
        /\ \A p \in Leaves(data) :
              LET r == records[Place(data, p)]
              IN /\ r.Category = category
                 /\ r.Series_Name = ItemsOf(data)[p[1]].v["series"]
                 /\ r.Year = YearsOf(data, p[1])[p[2]].v["year"]

\* A shaped response of two series of different names and years has been
\* parsed into a record of each.
C2_Witness ==
    /\ Returned /\ Shaped(data) /\ Len(records) >= 2
    /\ \E a, b \in 1..Len(records) :
          /\ records[a].Series_Name # records[b].Series_Name
          /\ records[a].Year # records[b].Year

----------------------------------------------------------------------------
(* Claims about scrape_all_categories (Spec).                               *)

\* The call has ended: it returned its DataFrame, or an exception left it.
Terminated == pc \in {"returned", "raised"}
\* The call has returned and nothing has yet been done with its DataFrame.
JustReturned == pc = "returned" /\ last_call.op = "none"

Gets == {k \in 1..Len(io) : io[k].op = "get"}
Sleeps == {k \in 1..Len(io) : io[k].op = "sleep"}
Max(a, b) == IF a >= b THEN a ELSE b

\* Fetches and delays alternate, a fetch first: the k-th delay stands
\* between the fetch of entry k and the fetch of entry k + 1.
Paced ==
    /\ \A k \in 1..Len(io) : (io[k].op = "get") <=> (k % 2 = 1)
    /\ \A k \in Gets : io[k] = GetOp(categories[(k + 1) \div 2])

\* C3: a call with n categories issues exactly n fetches, one per entry in
\* list order, and exactly max(n - 1, 0) delays, each strictly between two
\* consecutive fetches.
C3_FetchesAndDelays ==
    Terminated =>
        /\ Cardinality(Gets) = Len(categories)
        /\ Cardinality(Sleeps) = Max(Len(categories) - 1, 0)
        /\ Paced
        /\ Len(io) > 0 => io[Len(io)].op = "get"

\* What C3 states holds of every call that returns, and the pacing of every
\* call while it runs; only a call an exception leaves issues fewer fetches.
C3_WhenReturned ==
    /\ Paced
    /\ pc = "returned" =>
          /\ Cardinality(Gets) = Len(categories)
          /\ Cardinality(Sleeps) = Max(Len(categories) - 1, 0)
          /\ Len(io) > 0 => io[Len(io)].op = "get"

\* The records parse_category_data gives for the k-th category's fetch.
Returned_From(f) == IF f.failed THEN EmptyObj ELSE f.body
Parsed(cats, outcomes, k) ==
    parse_category_data(cats[k], Returned_From(outcomes[k])).records

RECURSIVE Offset(_, _, _)
\* The number of records of the categories before the k-th.
Offset(cats, outcomes, k) ==
    IF k <= 1 THEN 0
    ELSE Offset(cats, outcomes, k - 1) + Len(Parsed(cats, outcomes, k - 1))

\* rows is the concatenation of the parsed records of the first m categories.
Concatenated(rows, cats, outcomes, m) ==
    /\ Len(rows) = Offset(cats, outcomes, m + 1)
    /\ \A k \in 1..m : \A j \in 1..Len(Parsed(cats, outcomes, k)) :
          rows[Offset(cats, outcomes, k) + j] = Parsed(cats, outcomes, k)[j]

\* Successful fetches of a category that has no surveys.
ZeroSurveyBodies ==
    {BodyNoSurveys,
     Response(JList(<<SeriesObj(JStr(Chars("S", "1")), <<>>)>>)),
     Response(JList(<<SeriesObj(JStr(Chars("S", "1")),
                                <<YearObj(JStr(Chars("0", "1")), <<>>)>>)>>))}

\* The run in which every failed fetch succeeded with body z instead.
AsIfFetched(outcomes, z) ==
    [k \in 1..Len(outcomes) |->
        IF outcomes[k].failed THEN [failed |-> FALSE, body |-> z] ELSE outcomes[k]]

SomeFetchFailed == \E k \in 1..Len(fetched) : fetched[k].failed

\* C4: a failed fetch gives an empty mapping and raises nothing, every
\* remaining category is still fetched and parsed, and the dataset returned
\* is the one of a run in which the failed category had been fetched with
\* zero surveys.
C4_FailedFetchIsEmptyCategory ==
    /\ (pc = "parse" /\ fetched[Len(fetched)].failed) => data = EmptyObj
    /\ (Terminated /\ SomeFetchFailed) =>
          /\ pc = "returned"
          /\ Len(fetched) = Len(categories)
          /\ JustReturned =>
                \A z \in ZeroSurveyBodies :
                    /\ df = DataFrame(df.rows)
                    /\ Concatenated(df.rows, categories, AsIfFetched(fetched, z),
                                    Len(categories))

\* What C4 states holds of every call that returns.
C4_WhenReturned ==
    /\ (pc = "parse" /\ fetched[Len(fetched)].failed) => data = EmptyObj
    /\ (JustReturned /\ SomeFetchFailed) =>
          /\ Len(fetched) = Len(categories)
          /\ \A z \in ZeroSurveyBodies :
                /\ df = DataFrame(df.rows)
                /\ Concatenated(df.rows, categories, AsIfFetched(fetched, z),
                                Len(categories))

\* The number of categories whose records have been appended.
Appended == IF pc \in {"parse", "raised"} THEN Len(fetched) - 1 ELSE Len(fetched)

TitleOf(d, p) == Get(SurveysOf(d, p[1], p[2])[p[3]], "title", JStr(<<>>))

\* Within the k-th category the records stand in series, then year, then
\* survey order of its response.
InResponseOrder(rows, k) ==
    LET d == Returned_From(fetched[k])
    IN Shaped(d) =>
          \A p \in Leaves(d) :
              LET r == rows[Offset(categories, fetched, k) + Place(d, p)]
              IN /\ r.Category = categories[k]
                 /\ r.Series_Name = ItemsOf(d)[p[1]].v["series"]
                 /\ r.Year = YearsOf(d, p[1])[p[2]].v["year"]
                 /\ r.Survey_Title = TitleOf(d, p)

\* C9: the dataset returned is the concatenation, in category-list order, of
\* each category's parsed records, in the order of its response; a category
\* is fetched, parsed and appended before the next is fetched, and records
\* that are equal are all kept.
C9_ConcatenationInOrder ==
    /\ Concatenated(all_records, categories, fetched, Appended)
    /\ \A k \in 1..Appended : InResponseOrder(all_records, k)
    /\ pc = "fetch" => Len(fetched) = i - 1
    /\ JustReturned =>
          /\ Len(fetched) = Len(categories)
          /\ df.rows = all_records
          /\ Concatenated(df.rows, categories, fetched, Len(categories))

\* A returned dataset of several categories that holds equal records.
C9_Witness ==
    /\ JustReturned
    /\ \E a, b \in 1..Len(df.rows) : df.rows[a].Category # df.rows[b].Category
    /\ \E a, b \in 1..Len(df.rows) : a # b /\ df.rows[a] = df.rows[b]
    /\ \E k \in 1..Len(fetched) : fetched[k].body = BodyTwoSeries

Exported == last_call.op = "export_to_excel"
SheetNames(w) == [k \in 1..Len(w) |-> w[k].name]

\* C7: exporting the empty dataset scrape_all_categories returns writes one
\* sheet, All_Data, holding the header row Category, Series_Name, Year,
\* Survey_Title, URI and no data row, and does not call find_duplicates.
C7_EmptyExport ==
    (Exported /\ Len(all_records) = 0) =>
        /\ SheetNames(workbook) = <<"All_Data">>
        /\ workbook[1].header = BaseColumns
        /\ workbook[1].rows = <<>>
        /\ ~last_call.nested

\* What the code does write for the empty dataset: a sheet of no header.
C7_AsWritten ==
    (Exported /\ Len(all_records) = 0) =>
        /\ SheetNames(workbook) = <<"All_Data">>
        /\ workbook[1].header = <<>>
        /\ workbook[1].rows = <<>>
        /\ ~last_call.nested

----------------------------------------------------------------------------
(* Claims about find_duplicates and export_to_excel (SpecDup).              *)

\* A title lower-cased and trimmed of the blanks at its two ends.
TrimLower(cs) ==
    LET inked == {k \in 1..Len(cs) : ~IsSpace(cs[k])}
    IN IF inked = {} THEN <<>>
       ELSE LET first == CHOOSE k \in inked : \A j \in inked : k <= j
                last == CHOOSE k \in inked : \A j \in inked : k >= j
            IN [k \in 1..(last - first + 1) |-> LowerChar(cs[first + k - 1])]

GroupKey(r) == <<TrimLower(r.Survey_Title.v), r.Series_Name, r.Year>>

\* The k-th record of the dataset shares its triple with another record.
InGroup(recs, k) ==
    \E j \in 1..Len(recs) : j # k /\ GroupKey(recs[j]) = GroupKey(recs[k])

HasGroup(recs) == \E k \in 1..Len(recs) : InGroup(recs, k)

Count(rows, r) == Cardinality({k \in 1..Len(rows) : rows[k] = r})

\* rows holds every record of a group of recs, as often as recs does, and
\* no other record.
ExactlyTheGroups(rows, recs) ==
    /\ \A k \in 1..Len(recs) :
          Count(rows, recs[k]) =
              IF InGroup(recs, k) THEN Count(recs, recs[k]) ELSE 0
    /\ \A k \in 1..Len(rows) : \E j \in 1..Len(recs) : recs[j] = rows[k]

FoundDuplicates ==
    last_call.op = "find_duplicates" \/ (Exported /\ last_call.nested)

\* C5: find_duplicates returns exactly the records whose (normalized title,
\* Series_Name, Year) is shared by two or more records of the dataset, the
\* first occurrence included, and an empty result for an empty dataset.
C5_ExactlyTheDuplicates ==
    last_call.op = "find_duplicates" =>
        /\ ExactlyTheGroups(duplicates.rows, all_records)
        /\ Len(all_records) = 0 => duplicates = NoFrame

\* find_duplicates has returned a pair of records whose titles differ in
\* case and blanks only, and has left a record out.
C5_Witness ==
    /\ last_call.op = "find_duplicates"
    /\ Len(duplicates.rows) = 2
    /\ Len(all_records) = 3
    /\ duplicates.rows[1].Survey_Title # duplicates.rows[2].Survey_Title

\* C6: every export of a non-empty dataset writes an All_Data sheet whose
\* header is Category, Series_Name, Year, Survey_Title, URI and whose rows
\* are the records in dataset order, whatever find_duplicates and
\* export_to_excel calls came before on the same dataset.
C6_AllDataColumns ==
    (Exported /\ Len(all_records) > 0) =>
        /\ workbook[1].name = "All_Data"
        /\ workbook[1].header = BaseColumns
        /\ workbook[1].rows = all_records

\* C8: an export of a non-empty dataset writes All_Data, Category_Summary
\* and Series_Summary, and Potential_Duplicates if and only if the dataset
\* has a group of two or more records sharing (normalized title,
\* Series_Name, Year); that sheet holds what find_duplicates returned.
C8_SheetsWritten ==
    (Exported /\ Len(all_records) > 0) =>
        /\ SheetNames(workbook) =
              <<"All_Data", "Category_Summary", "Series_Summary">>
              \o (IF HasGroup(all_records) THEN <<"Potential_Duplicates">> ELSE <<>>)
        /\ last_call.nested
        /\ HasGroup(all_records) =>
              /\ workbook[4].header = duplicates.columns
              /\ workbook[4].rows = duplicates.rows
              /\ workbook[4].header = BaseColumns
              /\ ExactlyTheGroups(workbook[4].rows, all_records)

\* An export has written the duplicates sheet for a dataset that also holds
\* a record outside every group.
C8_Witness ==
    /\ Exported
    /\ Len(workbook) = 4
    /\ Len(workbook[4].rows) = 2
    /\ Len(all_records) = 3

\* C10: when find_duplicates returns, neither the records it returns nor
\* the dataset it was given carry a normalized-title field: the dataset is
\* as it was before the call.
C10_NormalizedTitleTransient ==
    [][FindDuplicates =>
          /\ df' = df
          /\ ~HasColumn(df', "Title_Normalized")
          /\ ~HasColumn(duplicates', "Title_Normalized")]_vars

\* The part of C10 that holds: the records returned carry no such field.
C10_ReturnedRecords ==
    FoundDuplicates =>
        /\ ~HasColumn(duplicates, "Title_Normalized")
        /\ \A k \in 1..Len(duplicates.rows) :
              "Title_Normalized" \notin DOMAIN duplicates.rows[k]

============================================================================
